---- MODULE Spec2Model ----
(***************************************************************************)
(* compact-encoding-rs: the State cursor {start, end, buffer} and the      *)
(* primitive codecs of src/src/lib.rs (Uint8..Uint64, Int8..Int64,         *)
(* Float32, Float64), with the zigzag transform.                           *)
(*                                                                         *)
(* Numbers.  TLC's integers are 32 bits wide, the code's are up to 64, so  *)
(* every primitive value is carried as a 64-bit word of four 16-bit limbs, *)
(* least significant first: <<l0, l1, l2, l3>> is                          *)
(* l0 + l1*2^16 + l2*2^32 + l3*2^48.  Unsigned values are zero-extended,   *)
(* signed values are two's complement (sign-extended), floats are their    *)
(* IEEE-754 bit pattern (f32::to_bits / f64::to_bits), zero-extended.      *)
(*                                                                         *)
(* Panics.  An index or slice out of range, and an arithmetic overflow in  *)
(* a build with overflow checks, abort the call: the outcome "Panic".      *)
(***************************************************************************)
EXTENDS Integers, Sequences, FiniteSets, TLC

VARIABLES
    start,            \* State.start
    end,              \* State.end
    buffer,           \* State.buffer: [some |-> FALSE] is None, else Some(vec)
    overflow_checks,  \* build profile: TRUE = debug (overflow panics), FALSE = release (wraps)
    last,             \* the last call made on the State and what it returned
    pc,               \* position of the scripted caller (SpecSeq); "free" under Spec
    todo,             \* scripted caller: the ordered list of typed values
    idx,              \* scripted caller: values handled in the current pass; free caller: calls made
    sized,            \* scripted caller: value of end after each pre_encode of the sizing pass
    marks,            \* scripted caller: result of, and start after, each encode of the fill pass
    got               \* scripted caller: what each decode of the read pass returned

vars == <<start, end, buffer, overflow_checks, last, pc, todo, idx, sized, marks, got>>

-----------------------------------------------------------------------------
(* 64-bit words                                                            *)

Base == 2^16
Half == 2^15

Zero     == <<0, 0, 0, 0>>
One      == <<1, 0, 0, 0>>
AllOnes  == <<Base - 1, Base - 1, Base - 1, Base - 1>>
I64_MIN  == <<0, 0, 0, Half>>
I64_MAX  == <<Base - 1, Base - 1, Base - 1, Half - 1>>

\* the word of a small natural number (below 2^31)
U(n) == <<n % Base, n \div Base, 0, 0>>

\* wrapping addition modulo 2^64
AddW(a, b) ==
    LET s1 == a[1] + b[1]
        s2 == a[2] + b[2] + (s1 \div Base)
        s3 == a[3] + b[3] + (s2 \div Base)
        s4 == a[4] + b[4] + (s3 \div Base)
    IN  <<s1 % Base, s2 % Base, s3 % Base, s4 % Base>>

NotW(a) == [i \in 1..4 |-> Base - 1 - a[i]]

\* two's complement negation, wrapping
NegW(a) == AddW(NotW(a), One)

\* the word of a small negative number -n (n below 2^31)
I(n) == IF n >= 0 THEN U(n) ELSE NegW(U(-n))

\* the sign bit of the word read as i64
IsNeg(a) == a[4] >= Half

\* logical shift right by one bit
Shr1(a) ==
    <<(a[1] \div 2) + (a[2] % 2) * Half,
      (a[2] \div 2) + (a[3] % 2) * Half,
      (a[3] \div 2) + (a[4] % 2) * Half,
      a[4] \div 2>>

\* i64 operations: the wrapped result and whether the exact result left i64
CheckedNeg(a)  == [val |-> NegW(a), ovf |-> a = I64_MIN]
CheckedAdd(a, b) ==
    LET r == AddW(a, b)
    IN  [val |-> r, ovf |-> IsNeg(a) = IsNeg(b) /\ IsNeg(r) # IsNeg(a)]
CheckedMul2(a) == CheckedAdd(a, a)
CheckedSub1(a) == CheckedAdd(a, AllOnes)
CheckedAdd1(a) == CheckedAdd(a, One)

\* i64 division by 2, truncating toward zero (never overflows)
Div2(a) == IF IsNeg(a) THEN NegW(Shr1(NegW(a))) ELSE Shr1(a)

\* (n >> (8 * k)) as u8, k in 0..7
ByteOf(w, k) ==
    LET l == w[(k \div 2) + 1]
    IN  IF k % 2 = 0 THEN l % 256 ELSE l \div 256

\* b as T * 256^k for a byte b, k in 0..7
ScaleByte(b, k) ==
    [i \in 1..4 |-> IF i = (k \div 2) + 1
                    THEN (IF k % 2 = 0 THEN b ELSE b * 256)
                    ELSE 0]

\* integer casts (`as`)
AsU8(w)  == <<w[1] % 256, 0, 0, 0>>
AsU16(w) == <<w[1], 0, 0, 0>>
AsU32(w) == <<w[1], w[2], 0, 0>>
AsI8(w)  ==
    LET b == w[1] % 256
    IN  IF b >= 128 THEN <<(Base - 256) + b, Base - 1, Base - 1, Base - 1>>
        ELSE <<b, 0, 0, 0>>
AsI16(w) == IF w[1] >= Half THEN <<w[1], Base - 1, Base - 1, Base - 1>>
            ELSE <<w[1], 0, 0, 0>>
AsI32(w) == IF w[2] >= Half THEN <<w[1], w[2], Base - 1, Base - 1>>
            ELSE <<w[1], w[2], 0, 0>>

\* n / 2^32 and n * 2^32 on u64
Div2p32(w) == <<w[3], w[4], 0, 0>>
Mul2p32(w) == <<0, 0, w[1], w[2]>>

-----------------------------------------------------------------------------
(* zigzag transform                                                        *)

\* zig_zag_encode(value: i64) -> u64; panic: an overflow in a checked build
zig_zag_encode(value) ==
    IF IsNeg(value)
    THEN LET t1 == CheckedNeg(value)        \* -n
             t2 == CheckedMul2(t1.val)      \* 2 * -n
             t3 == CheckedSub1(t2.val)      \* (2 * -n) - 1
         IN  [val |-> t3.val,
              panic |-> overflow_checks /\ (t1.ovf \/ t2.ovf \/ t3.ovf)]
    ELSE IF value = Zero
    THEN [val |-> Zero, panic |-> FALSE]
    ELSE LET t == CheckedMul2(value)        \* 2 * n
         IN  [val |-> t.val, panic |-> overflow_checks /\ t.ovf]

\* zig_zag_decode(value: u64) -> i64
zig_zag_decode(value) ==
    IF value = Zero
    THEN [val |-> Zero, panic |-> FALSE]
    ELSE IF value[1] % 2 = 0
    THEN [val |-> Div2(value), panic |-> FALSE]          \* (n as i64) / 2
    ELSE LET t1 == CheckedAdd1(value)       \* (n as i64) + 1
             t2 == CheckedNeg(t1.val)       \* -(..)
         IN  [val |-> Div2(t2.val),         \* .. / 2
              panic |-> overflow_checks /\ (t1.ovf \/ t2.ovf)]

-----------------------------------------------------------------------------
(* codecs: the implementations of PrimitiveEnDecoder                       *)

UnsignedCodecs == {"Uint8", "Uint16", "Uint32", "Uint64"}
SignedCodecs   == {"Int8", "Int16", "Int32", "Int64"}
FloatCodecs    == {"Float32", "Float64"}
Codecs         == UnsignedCodecs \cup SignedCodecs \cup FloatCodecs

U8_PREFIX  == 252
U16_PREFIX == 253
U32_PREFIX == 254
U64_PREFIX == 255

\* the unsigned codec a signed codec delegates to
UintOf(T) ==
    CASE T = "Int8"  -> "Uint8"
      [] T = "Int16" -> "Uint16"
      [] T = "Int32" -> "Uint32"
      [] T = "Int64" -> "Uint64"
      [] OTHER       -> T

\* const PROTOCOL_PREFIX
PROTOCOL_PREFIX(T) ==
    CASE UintOf(T) = "Uint8"  -> U8_PREFIX
      [] UintOf(T) = "Uint16" -> U16_PREFIX
      [] UintOf(T) = "Uint32" -> U32_PREFIX
      [] UintOf(T) = "Uint64" -> U64_PREFIX
      [] OTHER                -> 0

\* const PROTOCOL_HEADER_SIZE
PROTOCOL_HEADER_SIZE(T) ==
    IF UintOf(T) \in {"Uint16", "Uint32", "Uint64"} THEN 1 ELSE 0

\* const SIZE = size_of::<PrimitiveType>()
SIZE(T) ==
    CASE T \in {"Uint8", "Int8"}               -> 1
      [] T \in {"Uint16", "Int16"}             -> 2
      [] T \in {"Uint32", "Int32", "Float32"}  -> 4
      [] T \in {"Uint64", "Int64", "Float64"}  -> 8

\* mutant: the trait's default for every codec, the Uint8 override lost
protocol_header_matches_default(T, value) ==
    IF PROTOCOL_HEADER_SIZE(T) = 0 THEN TRUE ELSE value = PROTOCOL_PREFIX(T)

\* protocol_header_matches(value: u8) -> bool
protocol_header_matches(T, value) ==
    IF UintOf(T) = "Uint8"
    THEN value <= PROTOCOL_PREFIX(T)               \* the Uint8 override
    ELSE IF PROTOCOL_HEADER_SIZE(T) = 0
    THEN TRUE
    ELSE value = PROTOCOL_PREFIX(T)

-----------------------------------------------------------------------------
(* State                                                                   *)

None      == [some |-> FALSE, vec |-> <<>>]
Some(vec) == [some |-> TRUE, vec |-> vec]
NoValue   == <<>>

\* State::new()
new == [start |-> 0, end |-> 0, buffer |-> None]

\* mutant: a State that has a buffer keeps it
alloc_once(s) ==
    IF s.buffer.some THEN s ELSE [s EXCEPT !.buffer = Some([i \in 1..s.end |-> 0])]

\* State::alloc(): vec![0; self.end]
alloc(s) == [s EXCEPT !.buffer = Some([i \in 1..s.end |-> 0])]

\* mutant: end is not reset
dealloc_keeps_end(s) == [start |-> 0, end |-> s.end, buffer |-> None]

\* mutant: start is not reset
dealloc_keeps_start(s) == [start |-> s.start, end |-> 0, buffer |-> None]

\* State::dealloc()
dealloc(s) == [start |-> 0, end |-> 0, buffer |-> None]

\* what a call returns: the State it leaves, its result, the value of an Ok
Ret(s, res, val) == [st |-> s, res |-> res, val |-> val]

\* State::next_u8()
next_u8(s) ==
    IF s.start >= s.end
    THEN Ret(s, "OutOfBounds", NoValue)
    ELSE IF s.buffer.some
    THEN IF s.start < Len(s.buffer.vec)
         THEN Ret(s, "Ok", s.buffer.vec[s.start + 1])
         ELSE Ret(s, "Panic", NoValue)              \* buffer[self.start] out of range
    ELSE Ret(s, "NoBuffer", NoValue)

Min(a, b) == IF a <= b THEN a ELSE b

\* mutant: a byte that has no room is pushed onto the end of the buffer
store_bytes_push(s, bytes) ==
    LET vec == s.buffer.vec
        n   == IF s.start + Len(bytes) > Len(vec) THEN s.start + Len(bytes) ELSE Len(vec)
        new_vec == [i \in 1..n |->
                       IF i > s.start /\ i <= s.start + Len(bytes)
                       THEN bytes[i - s.start]
                       ELSE IF i <= Len(vec) THEN vec[i] ELSE 0]
    IN  Ret([s EXCEPT !.start = s.start + Len(bytes), !.buffer = Some(new_vec)],
            "Ok", NoValue)

\* `buffer[state.start] = b; state.start += 1;` for each b of bytes in turn: the
\* first index out of range panics, after the stores before it
store_bytes(s, bytes) ==
    LET vec  == s.buffer.vec
        room == IF s.start <= Len(vec) THEN Len(vec) - s.start ELSE 0
        k    == Min(Len(bytes), room)
        new_vec == [i \in 1..Len(vec) |->
                       IF i > s.start /\ i <= s.start + k
                       THEN bytes[i - s.start] ELSE vec[i]]
    IN  Ret([s EXCEPT !.start = s.start + k, !.buffer = Some(new_vec)],
            IF k = Len(bytes) THEN "Ok" ELSE "Panic", NoValue)

\* mutant: the bytes read are taken out of the buffer (left as 0)
load_bytes_take(s, n) ==
    LET vec  == s.buffer.vec
        room == IF s.start <= Len(vec) THEN Len(vec) - s.start ELSE 0
        k    == Min(n, room)
        new_vec == [i \in 1..Len(vec) |->
                       IF i > s.start /\ i <= s.start + k THEN 0 ELSE vec[i]]
    IN  Ret([s EXCEPT !.start = s.start + k, !.buffer = Some(new_vec)],
            IF k = n THEN "Ok" ELSE "Panic",
            [i \in 1..k |-> vec[s.start + i]])

\* `buffer[state.start]` read and `state.start += 1`, n times in turn: val is the
\* bytes read; the first index out of range panics, after the reads before it
load_bytes(s, n) ==
    LET vec  == s.buffer.vec
        room == IF s.start <= Len(vec) THEN Len(vec) - s.start ELSE 0
        k    == Min(n, room)
    IN  Ret([s EXCEPT !.start = s.start + k],
            IF k = n THEN "Ok" ELSE "Panic",
            [i \in 1..k |-> vec[s.start + i]])

\* the bytes (n >> 8*i) as u8, i = 0 .. n-1: little-endian (also to_le_bytes)
le_bytes(w, n) == [i \in 1..n |-> ByteOf(w, i - 1)]

\* value += bytes[i] as T * 256^i, from value = 0
le_value(bytes) ==
    LET RECURSIVE acc(_)
        acc(i) == IF i = 0 THEN Zero
                  ELSE AddW(acc(i - 1), ScaleByte(bytes[i], i - 1))
    IN  acc(Len(bytes))

\* (state.end - state.start) < size, in usize
size_check(s, size) ==
    IF s.start > s.end
    THEN (IF overflow_checks THEN "Panic" ELSE "Pass")   \* the difference wraps to a huge value
    ELSE IF s.end - s.start < size THEN "OutOfBounds" ELSE "Pass"

-----------------------------------------------------------------------------
(* sizing: pre_encode                                                      *)

\* primitive_pre_encode(state, n): the default adds SIZE; a signed codec first
\* evaluates zig_zag_encode(n as i64), then adds the unsigned codec's SIZE
primitive_pre_encode(T, s, n) ==
    IF T \in SignedCodecs /\ zig_zag_encode(n).panic
    THEN Ret(s, "Panic", NoValue)
    ELSE Ret([s EXCEPT !.end = s.end + SIZE(UintOf(T))], "Ok", NoValue)

\* mutant: the size of the protocol header is not added
pre_encode_no_header(T, s, n) == primitive_pre_encode(T, s, n)

\* EnDecoder::pre_encode(state, n)
pre_encode(T, s, n) ==
    primitive_pre_encode(T, [s EXCEPT !.end = s.end + PROTOCOL_HEADER_SIZE(T)], n)

-----------------------------------------------------------------------------
(* fill: encode                                                            *)

\* add_protocol_header(state): overridden to do nothing by Uint8, Int8 and floats
add_protocol_header(T, s) ==
    IF PROTOCOL_HEADER_SIZE(T) = 0
    THEN Ret(s, "Ok", NoValue)
    ELSE IF ~s.buffer.some
    THEN Ret(s, "NoBuffer", NoValue)
    ELSE store_bytes(s, <<PROTOCOL_PREFIX(T)>>)

\* mutant: the buffer is unwrapped, not checked
uint_primitive_encode_unwrap(size, s, n) ==
    IF ~s.buffer.some
    THEN Ret(s, "Panic", NoValue)
    ELSE store_bytes(s, le_bytes(n, size))

\* Uint8 / Uint16 / Uint32 ::primitive_encode(state, n): `size` indexed stores
uint_primitive_encode(size, s, n) ==
    IF ~s.buffer.some
    THEN Ret(s, "NoBuffer", NoValue)
    ELSE store_bytes(s, le_bytes(n, size))

\* mutant: the upper 32 bits are written first
Uint64_primitive_encode_high_first(s, n) ==
    LET hi == uint_primitive_encode(4, s, AsU32(Div2p32(n)))
    IN  IF hi.res # "Ok" THEN hi
        ELSE uint_primitive_encode(4, hi.st, AsU32(n))

\* Uint64::primitive_encode(state, n)
Uint64_primitive_encode(s, n) ==
    LET r  == Div2p32(n)                                   \* n / 2^32
        lo == uint_primitive_encode(4, s, AsU32(n))        \* lower 32 bits
    IN  IF lo.res # "Ok" THEN lo
        ELSE uint_primitive_encode(4, lo.st, AsU32(r))     \* upper 32 bits

\* mutant: the bit pattern is written most significant byte first (to_be_bytes)
float_primitive_encode_be(size, s, n) ==
    IF ~s.buffer.some
    THEN Ret(s, "NoBuffer", NoValue)
    ELSE IF s.start + size > Len(s.buffer.vec)
    THEN Ret(s, "Panic", NoValue)
    ELSE store_bytes(s, [i \in 1..size |-> ByteOf(n, size - i)])

\* Float32 / Float64 ::primitive_encode(state, n): one slice copy
float_primitive_encode(size, s, n) ==
    IF ~s.buffer.some
    THEN Ret(s, "NoBuffer", NoValue)
    ELSE IF s.start + size > Len(s.buffer.vec)
    THEN Ret(s, "Panic", NoValue)                          \* slice out of range
    ELSE store_bytes(s, le_bytes(n, size))

\* the u8 / u16 / u32 / u64 a signed codec hands to its unsigned codec
as_unsigned(T, w) ==
    CASE UintOf(T) = "Uint8"  -> AsU8(w)
      [] UintOf(T) = "Uint16" -> AsU16(w)
      [] UintOf(T) = "Uint32" -> AsU32(w)
      [] OTHER                -> w

\* the i8 / i16 / i32 / i64 a signed codec returns
as_signed(T, w) ==
    CASE T = "Int8"  -> AsI8(w)
      [] T = "Int16" -> AsI16(w)
      [] T = "Int32" -> AsI32(w)
      [] OTHER       -> w

\* primitive_encode(state, n) of an unsigned or float codec
plain_primitive_encode(T, s, n) ==
    CASE T = "Uint64"       -> Uint64_primitive_encode(s, n)
      [] T \in FloatCodecs  -> float_primitive_encode(SIZE(T), s, n)
      [] OTHER              -> uint_primitive_encode(SIZE(T), s, n)

\* mutant: a signed codec hands its value to the unsigned codec without the zigzag
primitive_encode_no_zig_zag(T, s, n) ==
    plain_primitive_encode(UintOf(T), s, as_unsigned(T, n))

\* primitive_encode(state, n)
primitive_encode(T, s, n) ==
    IF T \in SignedCodecs
    THEN LET z == zig_zag_encode(n)
         IN  IF z.panic THEN Ret(s, "Panic", NoValue)
             ELSE plain_primitive_encode(UintOf(T), s, as_unsigned(T, z.val))
    ELSE plain_primitive_encode(T, s, n)

\* EnDecoder::encode(state, n)
encode(T, s, n) ==
    LET h == add_protocol_header(T, s)
    IN  IF h.res # "Ok" THEN h ELSE primitive_encode(T, h.st, n)

-----------------------------------------------------------------------------
(* read: decode                                                            *)

\* Uint8 / Uint16 / Uint32 ::primitive_decode(state): `size` indexed reads
uint_primitive_decode(size, s) ==
    LET c == size_check(s, size)
    IN  IF c # "Pass" THEN Ret(s, c, NoValue)
        ELSE IF ~s.buffer.some THEN Ret(s, "NoBuffer", NoValue)
        ELSE LET r == load_bytes(s, size)
             IN  IF r.res # "Ok" THEN Ret(r.st, r.res, NoValue)
                 ELSE Ret(r.st, "Ok", le_value(r.val))

\* Uint64::primitive_decode(state)
Uint64_primitive_decode(s) ==
    LET c == size_check(s, 8)
    IN  IF c # "Pass" THEN Ret(s, c, NoValue)
        ELSE LET lo == uint_primitive_decode(4, s)
             IN  IF lo.res # "Ok" THEN lo
                 ELSE LET hi == uint_primitive_decode(4, lo.st)
                      IN  IF hi.res # "Ok" THEN hi
                          ELSE Ret(hi.st, "Ok", AddW(lo.val, Mul2p32(hi.val)))

\* Float32 / Float64 ::primitive_decode(state): one slice, from_le_bytes
float_primitive_decode(size, s) ==
    LET c == size_check(s, size)
    IN  IF c # "Pass" THEN Ret(s, c, NoValue)
        ELSE IF ~s.buffer.some THEN Ret(s, "NoBuffer", NoValue)
        ELSE IF s.start + size > Len(s.buffer.vec)
        THEN Ret(s, "Panic", NoValue)                      \* slice out of range
        ELSE LET r == load_bytes(s, size)
             IN  Ret(r.st, "Ok", le_value(r.val))

\* primitive_decode(state) of an unsigned or float codec
plain_primitive_decode(T, s) ==
    CASE T = "Uint64"       -> Uint64_primitive_decode(s)
      [] T \in FloatCodecs  -> float_primitive_decode(SIZE(T), s)
      [] OTHER              -> uint_primitive_decode(SIZE(T), s)

\* primitive_decode(state)
primitive_decode(T, s) ==
    IF T \in SignedCodecs
    THEN LET u == plain_primitive_decode(UintOf(T), s)
         IN  IF u.res # "Ok" THEN u
             ELSE LET z == zig_zag_decode(u.val)
                  IN  IF z.panic THEN Ret(u.st, "Panic", NoValue)
                      ELSE Ret(u.st, "Ok", as_signed(T, z.val))
    ELSE plain_primitive_decode(T, s)

\* EnDecoder::decode(state)
decode(T, s) ==
    LET c == size_check(s, SIZE(T))
    IN  IF c # "Pass" THEN Ret(s, c, NoValue)
        ELSE LET u == next_u8(s)
             IN  IF u.res # "Ok" THEN u
                 ELSE IF protocol_header_matches(T, u.val)
                 THEN primitive_decode(T, [s EXCEPT !.start = s.start + PROTOCOL_HEADER_SIZE(T)])
                 ELSE Ret(s, "TypeMismatch", NoValue)

-----------------------------------------------------------------------------
(* callers                                                                 *)

\* a typed value: the codec and the value handed to it
TV(T, w) == [codec |-> T, val |-> w]

MAX_SAFE_INTEGER == <<Base - 1, Base - 1, Base - 1, 31>>     \* 2^53 - 1
F32_NUM == <<15580, 17186, 0, 0>>                            \* 162.2377294f32: DC 3C 22 43
F64_NUM == <<51591, 31407, 18331, 16484>>                    \* 162.2377294f64: 87 C9 AF 7A 9B 47 64 40

\* the State as one value
S == [start |-> start, end |-> end, buffer |-> buffer]

\* a panic ends the caller
Alive == last.res # "Panic"

Called(op, T, r) == [op |-> op, codec |-> T, res |-> r.res, val |-> r.val]

\* the State and `last` after a call that returned (or panicked with) r
Apply(op, T, r) ==
    /\ start' = r.st.start
    /\ end' = r.st.end
    /\ buffer' = r.st.buffer
    /\ last' = Called(op, T, r)

(* The free caller: any public call in any order, on values of FreeValues.  *)

MaxEnd == 9      \* sizing stops once end would pass MaxEnd
MaxOps == 5      \* calls made on one State

FreeValues ==
    { TV("Uint8", U(42)), TV("Uint8", U(253)),
      TV("Uint16", U(4200)), TV("Uint32", U(65536)), TV("Uint64", MAX_SAFE_INTEGER),
      TV("Int8", I(-128)), TV("Int16", I(-4200)), TV("Int32", I(-1)),
      TV("Int64", I64_MIN), TV("Float32", F32_NUM), TV("Float64", F64_NUM) }

Init ==
    /\ start = 0 /\ end = 0 /\ buffer = None
    /\ overflow_checks \in BOOLEAN
    /\ last = [op |-> "new", codec |-> "-", res |-> "Ok", val |-> NoValue]
    /\ pc = "free" /\ todo = <<>> /\ idx = 0 /\ sized = <<>> /\ marks = <<>> /\ got = <<>>

Free == Alive /\ pc = "free" /\ idx < MaxOps

Step == idx' = idx + 1 /\ UNCHANGED <<overflow_checks, pc, todo, sized, marks, got>>

PreEncode ==
    /\ Free
    /\ \E tv \in FreeValues :
          LET r == pre_encode(tv.codec, S, tv.val)
          IN  r.st.end <= MaxEnd /\ Apply("pre_encode", tv.codec, r)
    /\ Step

Alloc ==
    /\ Free
    /\ Apply("alloc", "-", Ret(alloc(S), "Ok", NoValue))
    /\ Step

Dealloc ==
    /\ Free
    /\ Apply("dealloc", "-", Ret(dealloc(S), "Ok", NoValue))
    /\ Step

\* state.start = 0 (start is a pub field)
Rewind ==
    /\ Free
    /\ Apply("rewind", "-", Ret([S EXCEPT !.start = 0], "Ok", NoValue))
    /\ Step

NextU8 ==
    /\ Free
    /\ Apply("next_u8", "-", next_u8(S))
    /\ Step

Encode ==
    /\ Free
    /\ \E tv \in FreeValues : Apply("encode", tv.codec, encode(tv.codec, S, tv.val))
    /\ Step

Decode ==
    /\ Free
    /\ \E T \in Codecs : Apply("decode", T, decode(T, S))
    /\ Step

Next == PreEncode \/ Alloc \/ Dealloc \/ Rewind \/ NextU8 \/ Encode \/ Decode

Spec == Init /\ [][Next]_vars

-----------------------------------------------------------------------------
(* The scripted caller, as the tests drive the codecs: pre_encode of each   *)
(* value of `todo` in order on a fresh State, alloc(), encode of each in    *)
(* the same order, state.start = 0, decode of each codec in the same order. *)

MaxLen == 3      \* values in a heterogeneous list

\* values of the single-value runs: each codec's boundaries, u8 and i8 in full
RTValues ==
    {TV("Uint8", U(n)) : n \in 0..255}
    \cup {TV("Int8", I(n)) : n \in -128..127}
    \cup {TV("Uint16", U(n)) : n \in {0, 1, 252, 253, 255, 256, 4200, 65533, 65535}}
    \cup {TV("Uint32", w) : w \in {Zero, U(252), U(253), U(65535), U(65536),
                                   <<65533, 65535, 0, 0>>, <<65535, 65535, 0, 0>>}}
    \cup {TV("Uint64", w) : w \in {Zero, U(252), U(253), U(65536), <<65535, 65535, 0, 0>>,
                                   <<0, 0, 1, 0>>, MAX_SAFE_INTEGER,
                                   <<65533, 65535, 65535, 65535>>, AllOnes}}
    \cup {TV("Int16", I(n)) : n \in {0, 1, -1, 126, -127, -4200, 32767, -32768}}
    \cup {TV("Int32", w) : w \in {Zero, I(1), I(-1), I(-4200), I(65536),
                                  <<65535, 32767, 0, 0>>, <<0, 32768, 65535, 65535>>}}
    \cup {TV("Int64", w) : w \in {Zero, I(1), I(-1), I(-4200),
                                  <<65535, 65535, 65535, 16383>>,   \* 2^62 - 1
                                  <<0, 0, 0, 16384>>,               \* 2^62
                                  <<0, 0, 0, 49152>>,               \* -2^62
                                  <<65535, 65535, 65535, 49151>>,   \* -2^62 - 1
                                  I64_MAX, I64_MIN}}
    \cup {TV("Float32", w) : w \in {F32_NUM, Zero, <<0, 32640, 0, 0>>, <<0, 32704, 0, 0>>}}
    \cup {TV("Float64", w) : w \in {F64_NUM, Zero, <<0, 0, 0, 32752>>,
                                    <<13108, 13107, 13107, 16339>>}}

\* values of the lists: one per codec
SeqValues ==
    { TV("Uint8", U(42)), TV("Uint16", U(4200)), TV("Uint32", U(65536)),
      TV("Uint64", MAX_SAFE_INTEGER),
      TV("Int8", I(42)), TV("Int16", I(-4200)), TV("Int32", I(-1)), TV("Int64", I64_MIN),
      TV("Float32", F32_NUM), TV("Float64", F64_NUM) }

SeqLists == UNION {[1..n -> SeqValues] : n \in 2..MaxLen}

InitSeq ==
    /\ start = new.start /\ end = new.end /\ buffer = new.buffer
    /\ overflow_checks \in BOOLEAN
    /\ last = [op |-> "new", codec |-> "-", res |-> "Ok", val |-> NoValue]
    /\ pc = "size"
    /\ todo \in {<<tv>> : tv \in RTValues} \cup SeqLists
    /\ idx = 0 /\ sized = <<>> /\ marks = <<>> /\ got = <<>>

Cur == todo[idx + 1]

ScriptPreEncode ==
    /\ Alive /\ pc = "size" /\ idx < Len(todo)
    /\ LET r == pre_encode(Cur.codec, S, Cur.val)
       IN  Apply("pre_encode", Cur.codec, r) /\ sized' = Append(sized, r.st.end)
    /\ idx' = idx + 1
    /\ UNCHANGED <<overflow_checks, pc, todo, marks, got>>

ScriptAlloc ==
    /\ Alive /\ pc = "size" /\ idx = Len(todo)
    /\ Apply("alloc", "-", Ret(alloc(S), "Ok", NoValue))
    /\ pc' = "fill" /\ idx' = 0
    /\ UNCHANGED <<overflow_checks, todo, sized, marks, got>>

ScriptEncode ==
    /\ Alive /\ pc = "fill" /\ idx < Len(todo)
    /\ LET r == encode(Cur.codec, S, Cur.val)
       IN  /\ Apply("encode", Cur.codec, r)
           /\ marks' = Append(marks, [res |-> r.res, start |-> r.st.start])
    /\ idx' = idx + 1
    /\ UNCHANGED <<overflow_checks, pc, todo, sized, got>>

ScriptRewind ==
    /\ Alive /\ pc = "fill" /\ idx = Len(todo)
    /\ Apply("rewind", "-", Ret([S EXCEPT !.start = 0], "Ok", NoValue))
    /\ pc' = "read" /\ idx' = 0
    /\ UNCHANGED <<overflow_checks, todo, sized, marks, got>>

ScriptDecode ==
    /\ Alive /\ pc = "read" /\ idx < Len(todo)
    /\ LET r == decode(Cur.codec, S)
       IN  /\ Apply("decode", Cur.codec, r)
           /\ got' = Append(got, [res |-> r.res, val |-> r.val, start |-> r.st.start])
    /\ idx' = idx + 1
    /\ UNCHANGED <<overflow_checks, pc, todo, sized, marks>>

NextScript ==
    ScriptPreEncode \/ ScriptAlloc \/ ScriptEncode \/ ScriptRewind \/ ScriptDecode

SpecSeq == InitSeq /\ [][NextScript]_vars

-----------------------------------------------------------------------------
(* Properties.  Under SpecSeq a run is the script on one list `todo`; a     *)
(* single-value run has Len(todo) = 1.                                      *)

Single     == Len(todo) = 1
SizingDone == pc # "size"
FillDone   == pc = "read" \/ (pc = "fill" /\ idx = Len(todo))
ReadDone   == pc = "read" /\ idx = Len(todo)
\* the script has made its last call: it is through, or a call panicked
Ended      == ReadDone \/ ~Alive

\* start before the i-th encode / decode, end before the i-th pre_encode
MarkBefore(i)  == IF i = 1 THEN 0 ELSE marks[i - 1].start
GotBefore(i)   == IF i = 1 THEN 0 ELSE got[i - 1].start
SizedBefore(i) == IF i = 1 THEN 0 ELSE sized[i - 1]

\* the bytes of the buffer at offsets from .. to-1
Slice(vec, from, to) == [i \in 1..(to - from) |-> vec[from + i]]

\* C1: unsigned round trip. A single value v of Uint8 / Uint16 / Uint32 / Uint64,
\* sized on a fresh State, allocated, encoded, start rewound to 0 and decoded with
\* the same codec, comes back as Ok(v) with start = end.
C1_UnsignedRoundTrip ==
    (Single /\ todo[1].codec \in UnsignedCodecs /\ Ended)
        => /\ ReadDone
           /\ got[1].res = "Ok" /\ got[1].val = todo[1].val
           /\ start = end

\* C2: signed round trip. The same for a single value of Int8 / Int16 / Int32 /
\* Int64, the minimum and maximum of each width included (stated of the runs that
\* reach the decode: a run cut short by a panic is not counted against it).
C2_SignedRoundTrip ==
    (Single /\ todo[1].codec \in SignedCodecs /\ ReadDone)
        => /\ got[1].res = "Ok" /\ got[1].val = todo[1].val
           /\ start = end

\* C3: sizing / fill coupling. For the i-th value of any run, whatever its codec:
\* if its encode succeeded, encode advanced start by exactly what its pre_encode
\* added to end; if its decode succeeded, decode advanced start by that amount too.
C3_SizingFillCoupling ==
    /\ \A i \in 1..Len(marks) :
          marks[i].res = "Ok"
             => marks[i].start - MarkBefore(i) = sized[i] - SizedBefore(i)
    /\ \A i \in 1..Len(got) :
          got[i].res = "Ok"
             => got[i].start - GotBefore(i) = sized[i] - SizedBefore(i)

\* a run in which every codec with a protocol header was sized, filled and read back
C3_Witness ==
    /\ ReadDone /\ Len(todo) = 3
    /\ \A i \in 1..3 : marks[i].res = "Ok" /\ got[i].res = "Ok"
    /\ todo[1].codec = "Uint16" /\ todo[2].codec = "Int64" /\ todo[3].codec = "Float32"
    /\ sized = <<3, 12, 16>>

\* the narrowest layout that holds an unsigned value: its length and its bytes
MinimalLen(v) ==
    IF v[4] # 0 \/ v[3] # 0 THEN 9
    ELSE IF v[2] # 0 THEN 5
    ELSE IF v[1] > 252 THEN 3
    ELSE 1
MinimalBytes(v) ==
    CASE MinimalLen(v) = 1 -> <<v[1]>>
      [] MinimalLen(v) = 3 -> <<253, v[1] % 256, v[1] \div 256>>
      [] MinimalLen(v) = 5 -> <<254, v[1] % 256, v[1] \div 256, v[2] % 256, v[2] \div 256>>
      [] OTHER -> <<255, v[1] % 256, v[1] \div 256, v[2] % 256, v[2] \div 256,
                         v[3] % 256, v[3] \div 256, v[4] % 256, v[4] \div 256>>

\* C4: minimal width. A single unsigned value, whatever its declared codec, is sized
\* as, and encoded into, the narrowest of the 1 / 3 / 5 / 9 byte layouts that holds it
\* (the u8 253 as the 3 bytes FD FD 00, 252 as the byte FC).
C4_MinimalWidth ==
    (Single /\ todo[1].codec \in UnsignedCodecs /\ SizingDone /\ Alive)
        => /\ end = MinimalLen(todo[1].val)
           /\ FillDone => buffer.vec = MinimalBytes(todo[1].val)

\* the value of a little-endian payload of 2, 4 or 8 bytes
PayloadValue(p) ==
    [j \in 1..4 |-> IF 2 * j <= Len(p) THEN p[2 * j - 1] + 256 * p[2 * j] ELSE 0]

MarkerOf(T) == CASE T = "Uint16" -> 253 [] T = "Uint32" -> 254 [] T = "Uint64" -> 255
PayloadLen(T) == CASE T = "Uint16" -> 2 [] T = "Uint32" -> 4 [] T = "Uint64" -> 8

Triple == <<TV("Uint8", U(42)), TV("Uint16", U(4200)), TV("Uint64", MAX_SAFE_INTEGER)>>
TripleBytes == <<42, 253, 104, 16, 255, 255, 255, 255, 255, 255, 255, 31, 0>>

\* C5: wire layout. Every successful encode of a Uint16 / Uint32 / Uint64 value v
\* writes, from the start it found, the marker FD / FE / FF and then 2 / 4 / 8 bytes
\* whose little-endian value is v; and the triple (u8 42, u16 4200, u64 2^53 - 1)
\* fills the buffer with 2A FD 68 10 FF FF FF FF FF FF FF 1F 00.
C5_WireLayout ==
    /\ \A i \in 1..Len(marks) :
          (marks[i].res = "Ok" /\ todo[i].codec \in {"Uint16", "Uint32", "Uint64"})
             => LET T    == todo[i].codec
                    from == MarkBefore(i)
                IN  /\ marks[i].start = from + 1 + PayloadLen(T)
                    /\ buffer.vec[from + 1] = MarkerOf(T)
                    /\ PayloadValue(Slice(buffer.vec, from + 1, marks[i].start)) = todo[i].val
    /\ (todo = Triple /\ FillDone /\ Alive) => buffer.vec = TripleBytes

C5_Witness ==
    todo = Triple /\ FillDone /\ buffer.vec = TripleBytes /\ start = 13 /\ end = 13

\* C6: self-describing header. After the successful encode of a single unsigned
\* value, the first byte written tells the length written: at most FC iff 1 byte,
\* FD iff 3, FE iff 5, FF iff 9.
C6_SelfDescribing ==
    (Single /\ todo[1].codec \in UnsignedCodecs /\ Len(marks) = 1 /\ marks[1].res = "Ok")
        => LET first == buffer.vec[1]
               n     == marks[1].start
           IN  /\ (first <= 252) <=> (n = 1)
               /\ (first = 253) <=> (n = 3)
               /\ (first = 254) <=> (n = 5)
               /\ (first = 255) <=> (n = 9)

\* C8: sequencing determinism. For every list, each pre_encode and each encode
\* returns; once the fill pass is through, start = end, the i-th value occupies the
\* bytes from the start its encode found to the start it left, and those bytes are
\* the encoding of that value alone.
EncodingAlone(tv) ==
    LET s1 == pre_encode(tv.codec, new, tv.val).st
        r  == encode(tv.codec, alloc(s1), tv.val)
    IN  Slice(r.st.buffer.vec, 0, r.st.start)
C8_Sequencing ==
    /\ pc \in {"size", "fill"} => Alive
    /\ (pc = "fill" /\ idx = Len(todo) /\ Alive)
          => /\ start = end
             /\ \A i \in 1..Len(todo) :
                   /\ marks[i].res = "Ok"
                   /\ MarkBefore(i) < marks[i].start
                   /\ Slice(buffer.vec, MarkBefore(i), marks[i].start) = EncodingAlone(todo[i])

-----------------------------------------------------------------------------
(* Properties of single calls, under Spec.  Every step of Spec is one call;  *)
(* `last'` names it and what it returned, the unprimed variables are the     *)
(* State it found.                                                           *)

\* the length of a codec's full encoding, and the first byte it must start with
EncodedLen(T) ==
    CASE T \in {"Uint8", "Int8"}     -> 1
      [] T \in {"Uint16", "Int16"}   -> 3
      [] T \in {"Uint32", "Int32"}   -> 5
      [] T \in {"Uint64", "Int64"}   -> 9
      [] T = "Float32"               -> 4
      [] T = "Float64"               -> 8
FirstByteFits(T, b) ==
    CASE T \in {"Uint8", "Int8"}     -> b <= 252
      [] T \in {"Uint16", "Int16"}   -> b = 253
      [] T \in {"Uint32", "Int32"}   -> b = 254
      [] T \in {"Uint64", "Int64"}   -> b = 255
      [] OTHER                       -> TRUE

\* the whole encoding of T lies between start and end, inside the buffer
FullyThere(T) ==
    /\ buffer.some
    /\ start + EncodedLen(T) <= end
    /\ start + EncodedLen(T) <= Len(buffer.vec)

\* C7: marker verification. A decode as Uint16 / Uint32 / Uint64 or Int16 / Int32 /
\* Int64 that finds enough bytes and a first byte other than FD / FE / FF, and a
\* decode as Uint8 / Int8 that finds a first byte above FC, returns TypeMismatch,
\* returns no value and leaves start where it was.
C7_MarkerVerification ==
    [][ (/\ last'.op = "decode"
         /\ FullyThere(last'.codec)
         /\ ~FirstByteFits(last'.codec, buffer.vec[start + 1]))
           => (/\ last'.res = "TypeMismatch"
               /\ last'.val = NoValue
               /\ start' = start) ]_vars

\* a Uint32 decode refused on the marker FD, and a Uint8 decode refused on it
C7_Witness ==
    /\ last.op = "decode" /\ last.res = "TypeMismatch"
    /\ last.codec \in {"Uint32", "Int8"}
    /\ FullyThere(last.codec)
    /\ buffer.vec[start + 1] \in {253, 255}

\* the errors that say "not enough bytes": DecodeError::BufferTooSmall of error.rs,
\* which lib.rs names DecodeError::OutOfBounds
BoundsErrors == {"BufferTooSmall", "OutOfBounds"}

\* C9: bounds safety of decode. On a State whose buffer is end bytes long and with
\* start <= end, a decode that finds fewer bytes between start and end than its
\* codec's full encoding returns the not-enough-bytes error (and does not panic).
C9_DecodeBounds ==
    [][ (/\ last'.op = "decode"
         /\ buffer.some /\ Len(buffer.vec) = end /\ start <= end
         /\ end - start < EncodedLen(last'.codec))
           => last'.res \in BoundsErrors ]_vars

\* C10: failure atomicity. An encode or decode that returns an error leaves start,
\* end and the buffer as it found them.
C10_FailureAtomicity ==
    [][ (/\ last'.op \in {"encode", "decode"}
         /\ last'.res \notin {"Ok", "Panic"})
           => (start' = start /\ end' = end /\ buffer' = buffer) ]_vars

-----------------------------------------------------------------------------
(* The zigzag caller: zig_zag_encode of one i64, then zig_zag_decode of what *)
(* it returned.                                                              *)

\* the i64 inputs: every i8, and the values around 2^31, 2^62 and 2^63
ZigValues ==
    {I(n) : n \in -128..127}
    \cup {I(4200), I(-4200), <<65535, 32767, 0, 0>>, <<0, 32768, 65535, 65535>>,
          <<0, 0, 1, 0>>, MAX_SAFE_INTEGER,
          <<65535, 65535, 65535, 16383>>,   \* 2^62 - 1
          <<0, 0, 0, 16384>>,               \* 2^62
          <<1, 0, 0, 49152>>,               \* -2^62 + 1
          <<0, 0, 0, 49152>>,               \* -2^62
          <<65535, 65535, 65535, 49151>>,   \* -2^62 - 1
          <<65534, 65535, 65535, 32767>>,   \* i64::MAX - 1
          <<1, 0, 0, 32768>>,               \* i64::MIN + 1
          I64_MAX, I64_MIN}

\* the u64 inputs of zig_zag_decode: every u8, and the values around 2^63 and 2^64
ZigCodes ==
    {U(n) : n \in 0..255}
    \cup {U(8399), <<65535, 65535, 0, 0>>, <<0, 0, 1, 0>>,
          <<65534, 65535, 65535, 32767>>,   \* 2^63 - 2
          <<65535, 65535, 65535, 32767>>,   \* 2^63 - 1
          <<0, 0, 0, 32768>>,               \* 2^63
          <<1, 0, 0, 32768>>,               \* 2^63 + 1
          <<65534, 65535, 65535, 65535>>,   \* u64::MAX - 1
          AllOnes}                          \* u64::MAX

InitZig ==
    /\ start = new.start /\ end = new.end /\ buffer = new.buffer
    /\ overflow_checks \in BOOLEAN
    /\ last = [op |-> "new", codec |-> "-", res |-> "Ok", val |-> NoValue]
    /\ pc = "zig"
    /\ todo \in {<<TV("Int64", v)>> : v \in ZigValues}
                \cup {<<TV("Uint64", u)>> : u \in ZigCodes}
    /\ idx = 0 /\ sized = <<>> /\ marks = <<>> /\ got = <<>>

\* what a zigzag call returns, as a call record
ZigCalled(op, z) ==
    [op |-> op, codec |-> "-",
     res |-> IF z.panic THEN "Panic" ELSE "Ok",
     val |-> IF z.panic THEN NoValue ELSE z.val]

ZigZagEncode ==
    /\ Alive /\ pc = "zig" /\ idx = 0 /\ todo[1].codec = "Int64"
    /\ last' = ZigCalled("zig_zag_encode", zig_zag_encode(todo[1].val))
    /\ idx' = 1
    /\ UNCHANGED <<start, end, buffer, overflow_checks, pc, todo, sized, marks, got>>

ZigZagDecode ==
    /\ Alive /\ pc = "zig" /\ idx = 1
    /\ last' = ZigCalled("zig_zag_decode", zig_zag_decode(last.val))
    /\ idx' = 2
    /\ UNCHANGED <<start, end, buffer, overflow_checks, pc, todo, sized, marks, got>>

\* zig_zag_decode of a u64 input
ZigZagDecodeInput ==
    /\ Alive /\ pc = "zig" /\ idx = 0 /\ todo[1].codec = "Uint64"
    /\ last' = ZigCalled("zig_zag_decode", zig_zag_decode(todo[1].val))
    /\ idx' = 2
    /\ UNCHANGED <<start, end, buffer, overflow_checks, pc, todo, sized, marks, got>>

NextZig == ZigZagEncode \/ ZigZagDecode \/ ZigZagDecodeInput

SpecZig == InitZig /\ [][NextZig]_vars

\* C11: zigzag bijection. For every i64 v, i64::MIN, i64::MAX and every |v| >= 2^62
\* included, zig_zag_encode(v) returns, zig_zag_decode of it returns, and the value
\* that comes back is v.
C11_ZigZagBijection ==
    (pc = "zig" /\ todo[1].codec = "Int64")
        => /\ Alive
           /\ idx = 2 => (last.res = "Ok" /\ last.val = todo[1].val)

\* the i64 the inverse mapping assigns to u: u/2 for an even u, -(u+1)/2 for an odd u
ZigZagInverseOf(u) == IF u[1] % 2 = 0 THEN Shr1(u) ELSE NotW(Shr1(u))

\* C27: zigzag decode mapping. zig_zag_decode(u) returns u/2 for every even u64
\* and -(u+1)/2 for every odd u64, u >= 2^63 included: i64::MIN for u64::MAX,
\* i64::MAX for u64::MAX - 1.
C27_ZigZagDecodeMapping ==
    (pc = "zig" /\ todo[1].codec = "Uint64" /\ idx = 2)
        => /\ last.res = "Ok"
           /\ last.val = ZigZagInverseOf(todo[1].val)
           /\ todo[1].val = AllOnes => last.val = I64_MIN
           /\ todo[1].val = <<65534, 65535, 65535, 65535>> => last.val = I64_MAX
           /\ todo[1].val = U(8399) => last.val = I(-4200)

\* the u64 the mapping assigns to v: 0 for 0, 2v for v > 0, 2|v| - 1 for v < 0
ZigZagOf(v) ==
    IF IsNeg(v) THEN AddW(AddW(NegW(v), NegW(v)), AllOnes) ELSE AddW(v, v)

\* C12: zigzag mapping. zig_zag_encode(v) returns 0 for 0, 2v for v > 0 and
\* 2|v| - 1 for v < 0 (84 for 42, 8399 for -4200); the result is even exactly when
\* v >= 0; and no other input has the same result.
C12_ZigZagMapping ==
    (pc = "zig" /\ todo[1].codec = "Int64" /\ idx = 1)
        => /\ last.res = "Ok"
           /\ last.val = ZigZagOf(todo[1].val)
           /\ todo[1].val = I(42) => last.val = U(84)
           /\ todo[1].val = I(-4200) => last.val = U(8399)
           /\ (last.val[1] % 2 = 0) <=> ~IsNeg(todo[1].val)
           /\ \A w \in ZigValues :
                 (w # todo[1].val /\ ~zig_zag_encode(w).panic)
                     => zig_zag_encode(w).val # last.val

-----------------------------------------------------------------------------
(* Properties of the scripted caller's single calls, under SpecSeq: a step   *)
(* with idx < Len(todo) is the call of the pass `pc` on the value Cur.       *)

\* the unsigned codec of the same width
UnsignedOfWidth(T) ==
    CASE T = "Int8" -> "Uint8" [] T = "Int16" -> "Uint16"
      [] T = "Int32" -> "Uint32" [] T = "Int64" -> "Uint64"

\* the State and the result of the call the script is about to make, had it been
\* made with the unsigned codec W on the value z
UnsignedCall(W, z) ==
    CASE pc = "size" -> pre_encode(W, S, z)
      [] pc = "fill" -> encode(W, S, z)
      [] pc = "read" -> decode(W, S)

\* what the signed decode returns, given what the unsigned decode returned
SignedOfUnsigned(T, u) ==
    IF u.res # "Ok" THEN [res |-> u.res, val |-> NoValue]
    ELSE LET d == zig_zag_decode(u.val)
         IN  IF d.panic THEN [res |-> "Panic", val |-> NoValue]
             ELSE [res |-> "Ok", val |-> as_signed(T, d.val)]

\* C13: the signed layout reuses the unsigned layout. For every signed value v on
\* which zig_zag_encode returns: IntW pre_encode leaves the State UintW pre_encode
\* of zig_zag_encode(v) leaves; IntW encode leaves the State (offsets and bytes) and
\* returns the result UintW encode of zig_zag_encode(v) does; IntW decode leaves
\* the State UintW decode leaves and returns zig_zag_decode of what UintW decode
\* returns. Int8 42 is the byte 84, Int16 -4200 the bytes FD CF 20.
C13_SignedReusesUnsigned ==
    /\ [](/\ (todo = <<TV("Int8", I(42))>> /\ FillDone /\ Alive) => buffer.vec = <<84>>
          /\ (todo = <<TV("Int16", I(-4200))>> /\ FillDone /\ Alive)
                => buffer.vec = <<253, 207, 32>>)
    /\ [][ (/\ Alive /\ pc \in {"size", "fill", "read"} /\ idx < Len(todo)
            /\ Cur.codec \in SignedCodecs
            /\ ~zig_zag_encode(Cur.val).panic)
              => LET T == Cur.codec
                     u == UnsignedCall(UnsignedOfWidth(T),
                                       as_unsigned(T, zig_zag_encode(Cur.val).val))
                 IN  /\ start' = u.st.start /\ end' = u.st.end /\ buffer' = u.st.buffer
                     /\ pc \in {"size", "fill"} => last'.res = u.res
                     /\ pc = "read" => (/\ last'.res = SignedOfUnsigned(T, u).res
                                        /\ last'.val = SignedOfUnsigned(T, u).val) ]_vars

\* Int16 -4200 sized, written as FD CF 20 and read back
C13_Witness ==
    /\ todo = <<TV("Int16", I(-4200))>> /\ ReadDone
    /\ sized = <<3>> /\ buffer.vec = <<253, 207, 32>>
    /\ got[1].res = "Ok" /\ got[1].val = I(-4200) /\ start = 3

-----------------------------------------------------------------------------
(* Further properties of single calls, under Spec.                           *)

\* C14: encode before alloc. An encode of any codec on a State without a buffer
\* (fresh, sized, or after dealloc) returns NoBuffer and leaves start and end.
C14_EncodeBeforeAlloc ==
    [][ (last'.op = "encode" /\ ~buffer.some)
           => (last'.res = "NoBuffer" /\ start' = start /\ end' = end) ]_vars

\* an encode refused on a sized State that was never allocated
C14_Witness ==
    /\ last.op = "encode" /\ last.res = "NoBuffer"
    /\ ~buffer.some /\ end > 0 /\ start = 0

\* C15: decode before alloc. A decode of any codec on a State without a buffer
\* returns NoBuffer, whatever start and end are.
C15_DecodeBeforeAlloc ==
    [][ (last'.op = "decode" /\ ~buffer.some) => last'.res = "NoBuffer" ]_vars

\* C16: under-allocation is a typed error. An encode on an allocated State that
\* needs more bytes than end - start, or than the buffer holds from start on,
\* returns BufferTooSmall, does not panic and leaves the buffer's length.
C16_UnderAllocation ==
    [][ (/\ last'.op = "encode" /\ buffer.some /\ start <= end
         /\ \/ end - start < EncodedLen(last'.codec)
            \/ Len(buffer.vec) - start < EncodedLen(last'.codec))
           => (/\ last'.res = "BufferTooSmall"
               /\ buffer'.some /\ Len(buffer'.vec) = Len(buffer.vec)) ]_vars

\* C17: alloc(). From any State, alloc() leaves a buffer of exactly end zero bytes
\* and leaves start and end.
C17_Alloc ==
    [][ last'.op = "alloc"
           => (/\ buffer' = Some([i \in 1..end |-> 0])
               /\ start' = start /\ end' = end) ]_vars

\* alloc() on a State that was filled before: start is past written bytes, the
\* buffer is zero again
C17_Witness ==
    /\ last.op = "alloc" /\ start > 0 /\ end >= start
    /\ buffer = Some([i \in 1..end |-> 0])

\* C19: cursor invariant. In every State reached from State::new() by pre_encode,
\* alloc, encode, decode, dealloc calls and rewinds of start to 0: start <= end.
C19_CursorInvariant == start <= end

\* a decode refused at start = end, after the buffer was filled to its end
C19_Witness ==
    /\ last.op = "decode" /\ last.res \in BoundsErrors
    /\ buffer.some /\ start = end /\ start > 0

\* C20: buffer length stability. Once the State has a buffer, pre_encode, encode,
\* decode and further alloc() calls leave its length.
C20_BufferLengthStable ==
    [][ (buffer.some /\ last'.op \in {"pre_encode", "encode", "decode", "alloc"})
           => (buffer'.some /\ Len(buffer'.vec) = Len(buffer.vec)) ]_vars

\* C20 as amended: pre_encode, encode, decode (and next_u8, a rewind) leave the
\* buffer's length; alloc() replaces the buffer by one of end bytes; dealloc()
\* drops it.
C20_BufferLengthAmended ==
    [][ /\ (buffer.some /\ last'.op \in {"pre_encode", "encode", "decode", "next_u8", "rewind"})
              => (buffer'.some /\ Len(buffer'.vec) = Len(buffer.vec))
        /\ last'.op = "alloc" => (buffer'.some /\ Len(buffer'.vec) = end)
        /\ last'.op = "dealloc" => ~buffer'.some ]_vars

\* an encode that ran out of buffer, and a second alloc() after more sizing
C20_Witness ==
    \/ /\ last.op = "encode" /\ last.res = "Panic" /\ buffer.some
       /\ Len(buffer.vec) > 0 /\ start = Len(buffer.vec)
    \/ /\ last.op = "alloc" /\ start > 0 /\ Len(buffer.vec) > start

-----------------------------------------------------------------------------
(* The reusing caller: any calls of the free caller on a State, then         *)
(* dealloc(), then the script on the list `todo` with the same State.        *)

\* the lists of the reuse: the one of test_float64, a signed value, the triple
ReuseLists ==
    { <<TV("Uint8", U(0)), TV("Float64", F64_NUM)>>,
      <<TV("Int16", I(-4200))>>,
      Triple }

InitReuse ==
    /\ start = new.start /\ end = new.end /\ buffer = new.buffer
    /\ overflow_checks \in BOOLEAN
    /\ last = [op |-> "new", codec |-> "-", res |-> "Ok", val |-> NoValue]
    /\ pc = "free"
    /\ todo \in ReuseLists
    /\ idx = 0 /\ sized = <<>> /\ marks = <<>> /\ got = <<>>

\* state.dealloc(), then the script from its start
ScriptDealloc ==
    /\ Alive /\ pc = "free"
    /\ Apply("dealloc", "-", Ret(dealloc(S), "Ok", NoValue))
    /\ pc' = "size" /\ idx' = 0
    /\ UNCHANGED <<overflow_checks, todo, sized, marks, got>>

NextReuse ==
    \/ PreEncode \/ Alloc \/ Dealloc \/ Rewind \/ NextU8 \/ Encode \/ Decode
    \/ ScriptDealloc
    \/ ScriptPreEncode \/ ScriptAlloc \/ ScriptEncode \/ ScriptRewind \/ ScriptDecode

SpecReuse == InitReuse /\ [][NextReuse]_vars

\* the script on the list `todo` with a State fresh from State::new(): what the
\* i-th pre_encode, encode and decode return, and the States around them
RECURSIVE FreshSize(_)
FreshSize(i) ==
    IF i = 0 THEN Ret(new, "Ok", NoValue)
    ELSE pre_encode(todo[i].codec, FreshSize(i - 1).st, todo[i].val)
FreshAlloc == alloc(FreshSize(Len(todo)).st)
RECURSIVE FreshFill(_)
FreshFill(i) ==
    IF i = 0 THEN Ret(FreshAlloc, "Ok", NoValue)
    ELSE encode(todo[i].codec, FreshFill(i - 1).st, todo[i].val)
FreshRewind == [FreshFill(Len(todo)).st EXCEPT !.start = 0]
RECURSIVE FreshRead(_)
FreshRead(i) ==
    IF i = 0 THEN Ret(FreshRewind, "Ok", NoValue)
    ELSE decode(todo[i].codec, FreshRead(i - 1).st)

\* the State of the fresh run at the position (pc, idx) of the script
FreshState ==
    CASE pc = "size" -> FreshSize(idx).st
      [] pc = "fill" -> FreshFill(idx).st
      [] pc = "read" -> FreshRead(idx).st

\* C18: dealloc() and reuse. Every dealloc() leaves start = 0, end = 0 and no
\* buffer, the State of State::new(); and at every point of the sizing / alloc /
\* fill / decode cycle that follows on the reused State, the offsets, the buffer
\* and every result so far are those of the same cycle on a fresh State.
C18_DeallocReuse ==
    /\ last.op = "dealloc" => S = new
    /\ pc \in {"size", "fill", "read"}
          => /\ S = FreshState
             /\ sized = [i \in 1..Len(sized) |-> FreshSize(i).st.end]
             /\ marks = [i \in 1..Len(marks) |->
                           [res |-> FreshFill(i).res, start |-> FreshFill(i).st.start]]
             /\ got = [i \in 1..Len(got) |->
                         [res |-> FreshRead(i).res, val |-> FreshRead(i).val,
                          start |-> FreshRead(i).st.start]]

\* the second cycle of test_float64, run to its end on the reused State
C18_Witness ==
    /\ todo = <<TV("Uint8", U(0)), TV("Float64", F64_NUM)>>
    /\ ReadDone /\ sized = <<1, 9>>
    /\ buffer.vec = <<0, 135, 201, 175, 122, 155, 71, 100, 64>>
    /\ got[1].res = "Ok" /\ got[1].val = Zero
    /\ got[2].res = "Ok" /\ got[2].val = F64_NUM
    /\ start = 9 /\ end = 9

-----------------------------------------------------------------------------
(* Floats, under SpecSeq.                                                    *)

FloatLen(T) == CASE T = "Float32" -> 4 [] T = "Float64" -> 8

\* C21: floats are fixed-width and unframed. For every Float32 / Float64 value of
\* a run: pre_encode adds exactly 4 / 8 to end; a successful encode advances start
\* by 4 / 8 and the bytes it wrote are the bit pattern, least significant byte
\* first, with no marker before them; a successful decode returns the same bit
\* pattern and advances start by 4 / 8.
C21_FloatsFixedWidth ==
    \A i \in 1..Len(todo) :
       todo[i].codec \in FloatCodecs
          => LET n == FloatLen(todo[i].codec)
             IN  /\ i <= Len(sized) => sized[i] - SizedBefore(i) = n
                 /\ (i <= Len(marks) /\ marks[i].res = "Ok")
                       => /\ marks[i].start = MarkBefore(i) + n
                          /\ PayloadValue(Slice(buffer.vec, MarkBefore(i), marks[i].start))
                                = todo[i].val
                 /\ (i <= Len(got) /\ got[i].res = "Ok")
                       => /\ got[i].val = todo[i].val
                          /\ got[i].start = GotBefore(i) + n

\* 162.2377294f32 sized as 4 bytes, written as DC 3C 22 43 and read back
C21_Witness ==
    /\ todo = <<TV("Float32", F32_NUM)>> /\ ReadDone
    /\ sized = <<4>> /\ buffer.vec = <<220, 60, 34, 67>>
    /\ got[1].res = "Ok" /\ got[1].val = F32_NUM /\ start = 4

-----------------------------------------------------------------------------
(* Lookahead, index safety and frames of single calls, under Spec.           *)

\* C26: non-advancing lookahead. next_u8() returns Ok(buffer[start]) when
\* start < end and the State has a buffer, an error when start >= end or there is
\* no buffer, and in every case leaves start, end and the buffer.
C26_NextU8 ==
    [][ last'.op = "next_u8"
           => /\ (start < end /\ buffer.some)
                    => (/\ last'.res = "Ok"
                        /\ start < Len(buffer.vec)
                        /\ last'.val = buffer.vec[start + 1])
              /\ (start >= end \/ ~buffer.some) => last'.res \notin {"Ok", "Panic"}
              /\ start' = start /\ end' = end /\ buffer' = buffer ]_vars

\* the bytes a call reads from start on: one for next_u8, the codec's full
\* encoding for a decode
BytesNeeded(call) == IF call.op = "next_u8" THEN 1 ELSE EncodedLen(call.codec)

\* C28: index safety. A next_u8 or a decode on a State whose buffer is shorter
\* than the bytes the call reads from start on (as after a pre_encode that
\* followed alloc()) returns a typed error: it neither panics nor returns Ok.
C28_IndexSafety ==
    [][ (/\ last'.op \in {"next_u8", "decode"}
         /\ buffer.some /\ start < end
         /\ start + BytesNeeded(last') > Len(buffer.vec))
           => last'.res \notin {"Ok", "Panic"} ]_vars

\* C29: decode frame. A decode of any codec, succeeding, failing or panicking,
\* leaves end and every byte of the buffer, and never decreases start.
C29_DecodeFrame ==
    [][ last'.op = "decode"
           => (end' = end /\ buffer' = buffer /\ start' >= start) ]_vars

\* a decode that read a written value: start moved, the bytes are still there
C29_Witness ==
    /\ last.op = "decode" /\ last.res = "Ok" /\ last.codec = "Uint16"
    /\ last.val = U(4200) /\ start >= 3
    /\ Slice(buffer.vec, start - 3, start) = <<253, 104, 16>>

-----------------------------------------------------------------------------
(* The crossing caller: the script on a list of an unsigned value and a      *)
(* value after it, whose read pass may decode a position with another codec  *)
(* than the one that wrote it; the script ends there.                        *)

\* the values written after the unsigned value
CrossFollowers ==
    { TV("Uint16", U(4200)), TV("Uint64", MAX_SAFE_INTEGER), TV("Float64", F64_NUM) }

InitCross ==
    /\ start = new.start /\ end = new.end /\ buffer = new.buffer
    /\ overflow_checks \in BOOLEAN
    /\ last = [op |-> "new", codec |-> "-", res |-> "Ok", val |-> NoValue]
    /\ pc = "size"
    /\ todo \in {<<a, b>> : a \in {tv \in RTValues : tv.codec \in UnsignedCodecs},
                            b \in CrossFollowers}
    /\ idx = 0 /\ sized = <<>> /\ marks = <<>> /\ got = <<>>

ScriptDecodeAs ==
    /\ Alive /\ pc = "read" /\ idx < Len(todo)
    /\ \E B \in Codecs \ {Cur.codec} :
          LET r == decode(B, S)
          IN  /\ Apply("decode", B, r)
              /\ got' = Append(got, [res |-> r.res, val |-> r.val, start |-> r.st.start])
    /\ pc' = "crossed" /\ idx' = idx + 1
    /\ UNCHANGED <<overflow_checks, todo, sized, marks>>

NextCross ==
    \/ ScriptPreEncode \/ ScriptAlloc \/ ScriptEncode \/ ScriptRewind \/ ScriptDecode
    \/ ScriptDecodeAs

SpecCross == InitCross /\ [][NextCross]_vars

\* C30: no width confusion. At the position where A::encode(v) wrote, A an
\* unsigned codec and whatever was written after it, a decode with another
\* unsigned codec B does not return Ok.
C30_NoWidthConfusion ==
    [][ (/\ pc = "read" /\ pc' = "crossed"
         /\ start = MarkBefore(idx + 1)
         /\ Cur.codec \in UnsignedCodecs /\ last'.codec \in UnsignedCodecs)
           => last'.res # "Ok" ]_vars

-----------------------------------------------------------------------------
(* Bool, optional byte buffer and homogeneous sequence.  src/src/lib.rs has  *)
(* none of these codecs; they are the codecs the tests of src/src/tests      *)
(* (basic.rs, buffer.rs, npm_adapted.rs) call and error.rs names errors for, *)
(* modelled from their description: bool and buffer as the tests pin them    *)
(* down, the sequence (of bool elements) as described.  Lengths and counts   *)
(* are natural numbers; a decoded length of 2^31 or more is `huge`.          *)

\* the ceiling on a decoded sequence count (error.rs:65 names it; its value is
\* not in the sources, 3 stands for it)
MAX_ARRAY_DECODE_SIZE == 3

\* write(bytes): copy the bytes to start, advance start
write(s, bytes) ==
    IF ~s.buffer.some THEN Ret(s, "NoBuffer", NoValue)
    ELSE IF s.end - s.start < Len(bytes) \/ Len(s.buffer.vec) - s.start < Len(bytes)
    THEN Ret(s, "BufferTooSmall", NoValue)
    ELSE store_bytes(s, bytes)

\* mutant: only end bounds the read, not the length of the buffer
read_next_to_end(s, size) ==
    IF ~s.buffer.some THEN Ret(s, "NoBuffer", NoValue)
    ELSE IF s.end - s.start < size
    THEN Ret(s, "BufferTooSmall", NoValue)
    ELSE load_bytes(s, size)

\* read_next(size): the bytes [start, start + size), advance start
read_next(s, size) ==
    IF ~s.buffer.some THEN Ret(s, "NoBuffer", NoValue)
    ELSE IF s.end - s.start < size \/ Len(s.buffer.vec) - s.start < size
    THEN Ret(s, "BufferTooSmall", NoValue)
    ELSE load_bytes(s, size)

\* peek_u8(): the byte at start, start not advanced
peek_u8(s) ==
    LET r == read_next(s, 1)
    IN  IF r.res # "Ok" THEN Ret(s, r.res, NoValue) ELSE Ret(s, "Ok", r.val[1])

\* the unsigned-integer rule on a length n < 2^31: the narrowest layout
uint_bytes(n) ==
    IF n <= 252 THEN <<n>>
    ELSE IF n <= 65535 THEN <<253, n % 256, n \div 256>>
    ELSE <<254, n % 256, (n \div 256) % 256, (n \div 65536) % 256, n \div 16777216>>

\* the payload bytes after each first byte
uint_payload(first) ==
    CASE first <= 252 -> 0 [] first = 253 -> 2 [] first = 254 -> 4 [] OTHER -> 8

\* the length a prefix holds: [n, huge]
uint_value(bytes) ==
    LET p == Slice(bytes, 1, Len(bytes))
        B(i) == IF i <= Len(p) THEN p[i] ELSE 0
    IN  IF Len(bytes) = 1 THEN [n |-> bytes[1], huge |-> FALSE]
        ELSE IF B(4) >= 128 \/ B(5) + B(6) + B(7) + B(8) > 0 THEN [n |-> 0, huge |-> TRUE]
        ELSE [n |-> B(1) + 256 * B(2) + 65536 * B(3) + 16777216 * B(4), huge |-> FALSE]

\* decode of a length / count: one byte of lookahead, then the whole prefix
usize_decode(s) ==
    LET p == peek_u8(s)
    IN  IF p.res # "Ok" THEN p
        ELSE LET r == read_next(s, 1 + uint_payload(p.val))
             IN  IF r.res # "Ok" THEN Ret(s, r.res, NoValue)
                 ELSE Ret(r.st, "Ok", uint_value(r.val))

\* bool
bool_pre_encode(s, v) == Ret([s EXCEPT !.end = s.end + 1], "Ok", NoValue)

bool_encode(s, v) == write(s, <<IF v THEN 1 ELSE 0>>)

\* mutant: every byte other than 0 is true
bool_decode_nonzero(s) ==
    LET r == read_next(s, 1)
    IN  IF r.res # "Ok" THEN Ret(s, r.res, NoValue) ELSE Ret(r.st, "Ok", r.val[1] # 0)

bool_decode(s) ==
    LET r == read_next(s, 1)
    IN  IF r.res # "Ok" THEN Ret(s, r.res, NoValue) ELSE Ret(r.st, "Ok", r.val[1] = 1)

\* optional byte buffer: v is None or Some(bytes)
buffer_pre_encode(s, v) ==
    LET n == IF v.some THEN Len(v.vec) ELSE 0
    IN  Ret([s EXCEPT !.end = s.end + Len(uint_bytes(n)) + n], "Ok", NoValue)

\* mutant: the length is always written as a u16 (marker and 2 bytes)
buffer_encode_u16(s, v) ==
    LET n == IF v.some THEN Len(v.vec) ELSE 0
    IN  IF n = 0 THEN write(s, <<0>>)
        ELSE write(s, <<253, n % 256, n \div 256>> \o v.vec)

buffer_encode(s, v) ==
    LET n == IF v.some THEN Len(v.vec) ELSE 0
        h == write(s, uint_bytes(n))
    IN  IF h.res # "Ok" \/ n = 0 THEN h
        ELSE LET b == write(h.st, v.vec)
             IN  IF b.res # "Ok" THEN Ret(s, b.res, NoValue) ELSE b

buffer_decode(s) ==
    LET l == usize_decode(s)
    IN  IF l.res # "Ok" THEN l
        ELSE IF l.val.huge THEN Ret(s, "BufferTooSmall", NoValue)
        ELSE IF l.val.n = 0 THEN Ret(l.st, "Ok", None)
        ELSE LET r == read_next(l.st, l.val.n)
             IN  IF r.res # "Ok" THEN Ret(s, r.res, NoValue)
                 ELSE Ret(r.st, "Ok", Some(r.val))

\* homogeneous sequence of bool: v is a sequence of booleans
array_pre_encode(s, v) ==
    Ret([s EXCEPT !.end = s.end + Len(uint_bytes(Len(v))) + Len(v)], "Ok", NoValue)

\* the count, then bool_encode of each element in order
array_encode(s, v) ==
    LET RECURSIVE elems(_)
        elems(i) == IF i = 0 THEN write(s, uint_bytes(Len(v)))
                    ELSE LET r == elems(i - 1)
                         IN  IF r.res # "Ok" THEN r ELSE bool_encode(r.st, v[i])
        r == elems(Len(v))
    IN  IF r.res # "Ok" THEN Ret(s, r.res, NoValue) ELSE r

\* bool_decode n times in order from the State t: the values, or the first error
bool_elements(t, n) ==
    LET RECURSIVE elems(_)
        elems(i) == IF i = 0 THEN Ret(t, "Ok", <<>>)
                    ELSE LET r == elems(i - 1)
                         IN  IF r.res # "Ok" THEN r
                             ELSE LET e == bool_decode(r.st)
                                  IN  IF e.res # "Ok" THEN Ret(r.st, e.res, NoValue)
                                      ELSE Ret(e.st, "Ok", Append(r.val, e.val))
    IN  elems(n)

\* mutant: the elements are decoded first, the count is held against the ceiling after
array_decode_check_after(s) ==
    LET c == usize_decode(s)
    IN  IF c.res # "Ok" THEN c
        ELSE LET r == IF c.val.huge THEN Ret(s, "BufferTooSmall", NoValue)
                      ELSE bool_elements(c.st, c.val.n)
             IN  IF r.res # "Ok" THEN Ret(s, r.res, NoValue)
                 ELSE IF c.val.n > MAX_ARRAY_DECODE_SIZE THEN Ret(s, "ArrayTooLarge", NoValue)
                 ELSE r

\* the count, the ceiling, then bool_decode of each element in order
array_decode(s) ==
    LET c == usize_decode(s)
    IN  IF c.res # "Ok" THEN c
        ELSE IF c.val.huge \/ c.val.n > MAX_ARRAY_DECODE_SIZE
        THEN Ret(s, "ArrayTooLarge", NoValue)
        ELSE LET r == bool_elements(c.st, c.val.n)
             IN  IF r.res # "Ok" THEN Ret(s, r.res, NoValue) ELSE r

CompoundCodecs == {"Bool", "Buffer", "Array"}

compound_pre_encode(T, s, v) ==
    CASE T = "Bool"   -> bool_pre_encode(s, v)
      [] T = "Buffer" -> buffer_pre_encode(s, v)
      [] T = "Array"  -> array_pre_encode(s, v)

compound_encode(T, s, v) ==
    CASE T = "Bool"   -> bool_encode(s, v)
      [] T = "Buffer" -> buffer_encode(s, v)
      [] T = "Array"  -> array_encode(s, v)

compound_decode(T, s) ==
    CASE T = "Bool"   -> bool_decode(s)
      [] T = "Buffer" -> buffer_decode(s)
      [] T = "Array"  -> array_decode(s)

-----------------------------------------------------------------------------
(* The caller of the tests of these codecs: pre_encode of each value of      *)
(* `todo`, alloc(), encode of each; then, as test_buffer does, the buffer    *)
(* may be replaced by a shorter copy of itself, start is set, and decodes    *)
(* follow, of any of the three codecs.                                       *)

MaxCut  == 2     \* bytes cut off the end of the buffer
MaxSeek == 4     \* the largest position start is set to

Hi      == <<104, 105>>
Hello   == <<104, 101, 108, 108, 111>>
Content == <<99, 111, 110, 116, 101, 110, 116>>
\* vec![3u8; u8::MAX as usize + 1]
BufferLong == [i \in 1..256 |-> 3]

\* the values of one run are of one codec, but for the last list
BoolLists ==
    {<<TV("Bool", b)>> : b \in BOOLEAN} \cup {<<TV("Bool", TRUE), TV("Bool", FALSE)>>}

BufferLists ==
    {<<TV("Buffer", Some(<<b>>))>> : b \in 0..255}
    \cup {<<TV("Buffer", v)>> : v \in {None, Some(Hi), Some(Hello), Some(Content),
                                        Some(BufferLong)}}
    \cup {<<TV("Buffer", Some(Hi)), TV("Buffer", Some(Hello)), TV("Buffer", None)>>}

ArrayLists ==
    {<<TV("Array", v)>> : v \in {<<>>, <<TRUE>>, <<TRUE, FALSE, TRUE>>,
                                   <<FALSE, FALSE, TRUE, TRUE>>,
                                   <<TRUE, TRUE, FALSE, TRUE, FALSE>>}}

MixedList == <<TV("Array", <<TRUE, FALSE, TRUE>>), TV("Bool", TRUE)>>

InitCompound ==
    /\ start = new.start /\ end = new.end /\ buffer = new.buffer
    /\ overflow_checks \in BOOLEAN
    /\ last = [op |-> "new", codec |-> "-", res |-> "Ok", val |-> NoValue]
    /\ pc = "csize"
    /\ \/ todo \in BoolLists
       \/ todo \in BufferLists
       \/ todo \in ArrayLists
       \/ todo = MixedList
    /\ idx = 0 /\ sized = <<>> /\ marks = <<>> /\ got = <<>>

CompoundPreEncode ==
    /\ Alive /\ pc = "csize" /\ idx < Len(todo)
    /\ LET r == compound_pre_encode(Cur.codec, S, Cur.val)
       IN  Apply("pre_encode", Cur.codec, r) /\ sized' = Append(sized, r.st.end)
    /\ idx' = idx + 1
    /\ UNCHANGED <<overflow_checks, pc, todo, marks, got>>

CompoundAlloc ==
    /\ Alive /\ pc = "csize" /\ idx = Len(todo)
    /\ Apply("alloc", "-", Ret(alloc(S), "Ok", NoValue))
    /\ pc' = "cfill" /\ idx' = 0
    /\ UNCHANGED <<overflow_checks, todo, sized, marks, got>>

CompoundEncode ==
    /\ Alive /\ pc = "cfill" /\ idx < Len(todo)
    /\ LET r == compound_encode(Cur.codec, S, Cur.val)
       IN  /\ Apply("encode", Cur.codec, r)
           /\ marks' = Append(marks, [res |-> r.res, start |-> r.st.start])
    /\ idx' = idx + 1
    /\ UNCHANGED <<overflow_checks, pc, todo, sized, got>>

\* state.buffer = Some(Vec::from(&buffer[0..n])), n less than the length
CompoundTruncate ==
    /\ Alive /\ pc = "cfill" /\ idx = Len(todo)
    /\ \E k \in 1..MaxCut :
          /\ k <= Len(buffer.vec)
          /\ Apply("truncate", "-",
                   Ret([S EXCEPT !.buffer = Some(SubSeq(buffer.vec, 1, Len(buffer.vec) - k))],
                       "Ok", NoValue))
    /\ pc' = "ccut"
    /\ UNCHANGED <<overflow_checks, todo, idx, sized, marks, got>>

\* state.start = k
CompoundSeek ==
    /\ Alive /\ pc \in {"cfill", "ccut"} /\ idx = Len(todo)
    /\ \E k \in 0..MaxSeek :
          /\ k <= end
          /\ Apply("seek", "-", Ret([S EXCEPT !.start = k], "Ok", NoValue))
    /\ pc' = "cread" /\ idx' = 0
    /\ UNCHANGED <<overflow_checks, todo, sized, marks, got>>

\* up to one decode more than values were written
CompoundDecode ==
    /\ Alive /\ pc = "cread" /\ idx <= Len(todo)
    /\ \E D \in CompoundCodecs :
          LET r == compound_decode(D, S)
          IN  /\ Apply("decode", D, r)
              /\ got' = Append(got, [codec |-> D, res |-> r.res, val |-> r.val,
                                     start |-> r.st.start])
    /\ idx' = idx + 1
    /\ UNCHANGED <<overflow_checks, pc, todo, sized, marks>>

NextCompound ==
    \/ CompoundPreEncode \/ CompoundAlloc \/ CompoundEncode
    \/ CompoundTruncate \/ CompoundSeek \/ CompoundDecode

SpecCompound == InitCompound /\ [][NextCompound]_vars

-----------------------------------------------------------------------------
\* end before the i-th pre_encode, start before the i-th encode
CompoundSizedBefore(i) == IF i = 1 THEN 0 ELSE sized[i - 1]
CompoundMarkBefore(i)  == IF i = 1 THEN 0 ELSE marks[i - 1].start

\* a decode is the step; the byte under the cursor is in the range and in the buffer
BytesAhead == IF buffer.some THEN Min(end, Len(buffer.vec)) - start ELSE 0
DecodeStepOf(T) == pc = "cread" /\ last'.op = "decode" /\ last'.codec = T /\ idx' = idx + 1

\* C22: the Bool codec. pre_encode adds exactly 1 to end; encode writes the
\* single byte 1 for true and 0 for false and advances start by 1; decode of a
\* readable byte returns true exactly when the byte is 1, false for every
\* other byte value and never an error, and advances start by 1.
C22_Bool ==
    /\ [](\A i \in 1..Len(todo) :
            todo[i].codec = "Bool" =>
              /\ (pc \in {"csize", "cfill"} /\ i <= Len(sized))
                    => sized[i] = CompoundSizedBefore(i) + 1
              /\ (pc = "cfill" /\ i <= Len(marks)) =>
                    /\ marks[i].res = "Ok"
                    /\ marks[i].start = CompoundMarkBefore(i) + 1
                    /\ buffer.vec[marks[i].start] = (IF todo[i].val THEN 1 ELSE 0))
    /\ [][ (DecodeStepOf("Bool") /\ BytesAhead >= 1) =>
              /\ last'.res = "Ok"
              /\ last'.val = (buffer.vec[start + 1] = 1)
              /\ start' = start + 1 /\ end' = end /\ buffer' = buffer ]_vars

\* a byte that is neither 0 nor 1 was decoded as a bool, and so was a 1
C22_Witness ==
    /\ pc = "cread" /\ Len(got) >= 2
    /\ got[1].codec = "Bool" /\ got[1].res = "Ok" /\ got[1].start = 1
    /\ buffer.vec[1] = 1 /\ got[1].val = TRUE
    /\ got[2].codec = "Bool" /\ got[2].res = "Ok" /\ got[2].start = 2
    /\ buffer.vec[2] > 1 /\ got[2].val = FALSE

\* the length prefix the claim names for a buffer of n bytes, n below 2^16
LengthPrefix(n) == IF n <= 252 THEN <<n>> ELSE <<253, n % 256, n \div 256>>
BufferLen(v) == IF v.some THEN Len(v.vec) ELSE 0
BufferLayout(v) == IF v.some /\ Len(v.vec) > 0 THEN LengthPrefix(Len(v.vec)) \o v.vec ELSE <<0>>

\* the result a Buffer decode must give when the length n follows `skip`
\* prefix bytes and the n bytes are readable
BufferDecoded(skip, n) ==
    IF n = 0
    THEN last'.res = "Ok" /\ last'.val = None /\ start' = start + skip
    ELSE BytesAhead >= skip + n =>
            /\ last'.res = "Ok"
            /\ last'.val = Some(Slice(buffer.vec, start + skip, start + skip + n))
            /\ start' = start + skip + n

\* C23: the optional byte buffer. An absent buffer is sized 1 and written as
\* the byte 0x00; a present buffer of n bytes is sized to and written as the
\* unsigned-integer encoding of n followed by the n bytes (7 bytes: prefix
\* [7]; 256 bytes: prefix [0xFD,0x00,0x01], 3 + 256 bytes in all). Decoding a
\* length prefix of 0 yields absent, any other prefix exactly the n bytes
\* that follow it.
C23_BufferLayout ==
    /\ [](\A i \in 1..Len(todo) :
            todo[i].codec = "Buffer" =>
              /\ (pc \in {"csize", "cfill"} /\ i <= Len(sized))
                    => sized[i] = CompoundSizedBefore(i) + Len(BufferLayout(todo[i].val))
              /\ (pc = "cfill" /\ i <= Len(marks)) =>
                    /\ marks[i].res = "Ok"
                    /\ marks[i].start = CompoundMarkBefore(i) + Len(BufferLayout(todo[i].val))
                    /\ Slice(buffer.vec, CompoundMarkBefore(i), marks[i].start)
                          = BufferLayout(todo[i].val))
    /\ [][ (DecodeStepOf("Buffer") /\ BytesAhead >= 1) =>
              LET first == buffer.vec[start + 1]
              IN  /\ first <= 252 => BufferDecoded(1, first)
                  /\ (first = 253 /\ BytesAhead >= 3)
                        => BufferDecoded(3, buffer.vec[start + 2] + 256 * buffer.vec[start + 3])
                  /\ end' = end /\ buffer' = buffer ]_vars

\* the buffer of 256 bytes was sized 3 + 256, written behind [0xFD,0x00,0x01]
\* and decoded again
C23_Witness ==
    /\ Len(todo) = 1 /\ todo[1].codec = "Buffer" /\ todo[1].val = Some(BufferLong)
    /\ pc = "cread" /\ Len(got) >= 1 /\ sized = <<259>>
    /\ Slice(buffer.vec, 0, 3) = <<253, 0, 1>>
    /\ got[1].codec = "Buffer" /\ got[1].res = "Ok" /\ got[1].start = 259
    /\ got[1].val = Some(BufferLong)

\* the bytes the buffer really holds behind the cursor
BytesHeld == IF buffer.some THEN Len(buffer.vec) - start ELSE 0

\* a Buffer decode whose prefix of `skip` bytes declares n bytes, more than
\* the buffer holds behind the prefix
TruncatedBuffer(skip, n) ==
    (n > 0 /\ BytesHeld - skip < n) =>
        /\ last'.res = "BufferTooSmall"
        /\ start' = start /\ end' = end /\ buffer' = buffer

\* C24: decoding a length-prefixed byte buffer whose declared length exceeds
\* the bytes actually remaining in the buffer returns BufferTooSmall and does
\* not read out of range, also when State.end is larger than the real length
\* of the buffer.
C24_TruncatedBuffer ==
    [][ (DecodeStepOf("Buffer") /\ start < end /\ BytesHeld >= 1) =>
           LET first == buffer.vec[start + 1]
           IN  /\ last'.res # "Panic"
               /\ first <= 252 => TruncatedBuffer(1, first)
               /\ (first = 253 /\ BytesHeld >= 3 /\ end - start >= 3)
                     => TruncatedBuffer(3, buffer.vec[start + 2] + 256 * buffer.vec[start + 3])
      ]_vars

\* test_buffer: the buffer cut to 8 bytes, end still 10, start at the prefix
\* [5] of "hello", and a Buffer decode that returned BufferTooSmall
C24_Witness ==
    /\ pc = "cread" /\ last.op = "decode" /\ last.codec = "Buffer"
    /\ last.res = "BufferTooSmall"
    /\ start = 3 /\ end = 10 /\ Len(buffer.vec) = 8 /\ buffer.vec[4] = 5

\* an Array decode whose prefix of `skip` bytes declares more elements than
\* the ceiling: the error, and the cursor not beyond the prefix
OverCeiling(skip, n) ==
    n > MAX_ARRAY_DECODE_SIZE =>
        /\ last'.res = "ArrayTooLarge"
        /\ start' <= start + skip /\ end' = end /\ buffer' = buffer

\* C25: when decoding a homogeneous sequence, a declared element count above
\* MAX_ARRAY_DECODE_SIZE makes decode return ArrayTooLarge before any element
\* is decoded: no element bytes are consumed and no element-level error is
\* reported in its place.
C25_ArrayCeiling ==
    [][ (DecodeStepOf("Array") /\ BytesAhead >= 1) =>
           LET first == buffer.vec[start + 1]
           IN  /\ first <= 252 => OverCeiling(1, first)
               /\ (first = 253 /\ BytesAhead >= 3)
                     => OverCeiling(3, buffer.vec[start + 2] + 256 * buffer.vec[start + 3])
      ]_vars

\* a count above the ceiling with fewer bytes behind it than elements declared,
\* so that decoding the elements would have run out of bytes
C25_Witness ==
    /\ pc = "cread" /\ last.op = "decode" /\ last.codec = "Array"
    /\ last.res = "ArrayTooLarge"
    /\ BytesAhead >= 1
    /\ buffer.vec[start + 1] > MAX_ARRAY_DECODE_SIZE /\ buffer.vec[start + 1] <= 252
    /\ BytesAhead - 1 < buffer.vec[start + 1]

====
